---------------------------- MODULE Spec2Model ----------------------------
(***************************************************************************)
(* Model of the temperature extractor of fetch_temperatures.py / app.py:   *)
(* the name classifier is_temp_name, the recursive scan find_locations,    *)
(* the SQLite sink write_sqlite and the update run main.                   *)
(*                                                                         *)
(* Text is modelled as a sequence of characters (one-character strings),   *)
(* so that the regular expression of the classifier, str() and float()     *)
(* are computed character by character.  The two CJK characters of the     *)
(* pattern are written "u6EAB" and "u5EA6" (their code points).            *)
(***************************************************************************)
EXTENDS Integers, Sequences, FiniteSets, TLC

VARIABLES
    name,       \* classifier: the candidate element name
    verdict,    \* classifier: "none" before the call, then "yes" / "no"
    data,       \* scan: the JSON value handed to find_locations
    out,        \* scan: the outcome of the call
    source,     \* update run: the source the last run of main was pointed at
    db,         \* update run: the committed rows of the temperatures table
    run         \* update run: what the last run of main did

vars == <<name, verdict, data, out, source, db, run>>

(***************************************************************************)
(* The values of the variables a specification does not use                *)
(***************************************************************************)

NoData == [t |-> "null", b |-> FALSE, n |-> 0, s |-> <<>>, kids |-> <<>>]
NoOut == [called |-> FALSE, raised |-> FALSE, found |-> <<>>]
NoSource == [kind |-> "none", doc |-> NoData]
NoRun == [ran |-> FALSE, via |-> "none", rc |-> 0, msg |-> "none", raised |-> FALSE,
          wrote |-> FALSE, committed |-> FALSE, rows |-> <<>>]

(***************************************************************************)
(* Characters                                                              *)
(***************************************************************************)

\* Longest element name handed to the classifier.
MaxLen == 4

Wen == "u6EAB"
Du == "u5EA6"

\* The characters names are drawn from: letters of the pattern in both
\* cases, another letter, a separator and the two CJK characters.
Alphabet == {"t", "T", "e", "m", "p", "o", " ", Wen, Du}

\* Unicode \w of Python's re: letters (CJK included), digits, underscore.
IsWord(c) == c \notin {" ", "-", ".", ",", ":", "'", "[", "]", "{", "}"}

\* re.IGNORECASE folds case before comparing.
Lower(c) ==
    CASE c = "T" -> "t"
      [] c = "E" -> "e"
      [] c = "M" -> "m"
      [] c = "P" -> "p"
      [] c = "N" -> "n"
      [] c = "A" -> "a"
      [] OTHER -> c

(***************************************************************************)
(* is_temp_name: re.search(r"temp|temperature|t\b|<Wen><Du>", name, I)     *)
(***************************************************************************)

\* The literal lit matches name at position i, case-insensitively.
LitAt(s, i, lit) ==
    /\ i + Len(lit) - 1 <= Len(s)
    /\ \A k \in 1..Len(lit) : Lower(s[i + k - 1]) = Lower(lit[k])

WordAt(s, i) == i >= 1 /\ i <= Len(s) /\ IsWord(s[i])

\* \b between positions i-1 and i: exactly one side is a word character.
BoundaryAt(s, i) == WordAt(s, i - 1) # WordAt(s, i)

AltTemp(s, i) == LitAt(s, i, <<"t", "e", "m", "p">>)
AltTemperature(s, i) ==
    LitAt(s, i, <<"t", "e", "m", "p", "e", "r", "a", "t", "u", "r", "e">>)
AltTBoundary(s, i) == LitAt(s, i, <<"t">>) /\ BoundaryAt(s, i + 1)
AltWenDu(s, i) == LitAt(s, i, <<Wen, Du>>)

\* Mutant: the "t" alternative without its \b, a bare substring test.
is_temp_name_bare_t(s) ==
    \E i \in 1..Len(s) :
        AltTemp(s, i) \/ AltTemperature(s, i) \/ LitAt(s, i, <<"t">>) \/ AltWenDu(s, i)

is_temp_name(s) ==
    \E i \in 1..Len(s) :
        AltTemp(s, i) \/ AltTemperature(s, i) \/ AltTBoundary(s, i) \/ AltWenDu(s, i)

(***************************************************************************)
(* Specification of the classifier                                         *)
(***************************************************************************)

NamesOfLen(n) == [1..n -> Alphabet]

InitClassify ==
    /\ \E n \in 0..MaxLen : name \in NamesOfLen(n)
    /\ verdict = "none"
    /\ data = NoData /\ out = NoOut
    /\ source = NoSource /\ db = <<>> /\ run = NoRun

Classify ==
    /\ verdict = "none"
    /\ verdict' = IF is_temp_name(name) THEN "yes" ELSE "no"
    /\ UNCHANGED <<name, data, out, source, db, run>>

NextClassify == Classify

SpecClassify == InitClassify /\ [][NextClassify]_vars

(***************************************************************************)
(* C5                                                                      *)
(***************************************************************************)

ContainsCI(s, lit) ==
    \E i \in 1..Len(s) :
        /\ i + Len(lit) - 1 <= Len(s)
        /\ [k \in 1..Len(lit) |-> Lower(s[i + k - 1])] = lit

NoWordBefore(s, i) == i = 1 \/ ~IsWord(s[i - 1])
NoWordAfter(s, i) == i = Len(s) \/ ~IsWord(s[i + 1])

\* C5 as stated: a name is accepted exactly when it contains "temp", the CJK
\* term, or a "t" with no word character directly before it and none
\* directly after it.
C5_AsStated ==
    verdict # "none" =>
        ((verdict = "yes") <=>
            \/ ContainsCI(name, <<"t", "e", "m", "p">>)
            \/ ContainsCI(name, <<Wen, Du>>)
            \/ \E i \in 1..Len(name) :
                  /\ Lower(name[i]) = "t"
                  /\ NoWordBefore(name, i)
                  /\ NoWordAfter(name, i))

\* C5 amended: a name is accepted exactly when it contains "temp", the CJK
\* term, or a "t" that is not directly followed by a word character
\* (whatever precedes it); every other name, "township" and the empty name
\* included, is rejected.
C5_Classifier ==
    verdict # "none" =>
        ((verdict = "yes") <=>
            \/ ContainsCI(name, <<"t", "e", "m", "p">>)
            \/ ContainsCI(name, <<Wen, Du>>)
            \/ \E i \in 1..Len(name) :
                  Lower(name[i]) = "t" /\ NoWordAfter(name, i))

\* A name ending in "t" after a letter has been classified and accepted.
C5_Witness ==
    /\ verdict = "yes"
    /\ Len(name) >= 2
    /\ Lower(name[Len(name)]) = "t"
    /\ IsWord(name[Len(name) - 1])
    /\ ~ContainsCI(name, <<"t", "e", "m", "p">>)


(***************************************************************************)
(* JSON values, as json.load builds them                                   *)
(*                                                                         *)
(* One record shape for every value: t is the type, b / n / s the payload  *)
(* of a boolean / number / string, kids the members of an object (key k,   *)
(* value v, in insertion order) or the items of an array (k = "").         *)
(***************************************************************************)

JNull == [t |-> "null", b |-> FALSE, n |-> 0, s |-> <<>>, kids |-> <<>>]
JBool(b) == [t |-> "bool", b |-> b, n |-> 0, s |-> <<>>, kids |-> <<>>]
JNum(n) == [t |-> "num", b |-> FALSE, n |-> n, s |-> <<>>, kids |-> <<>>]
JStr(s) == [t |-> "str", b |-> FALSE, n |-> 0, s |-> s, kids |-> <<>>]
JArr(items) ==
    [t |-> "arr", b |-> FALSE, n |-> 0, s |-> <<>>,
     kids |-> [i \in 1..Len(items) |-> [k |-> "", v |-> items[i]]]]
JObj(members) == [t |-> "obj", b |-> FALSE, n |-> 0, s |-> <<>>, kids |-> members]
KV(k, v) == [k |-> k, v |-> v]

\* k in obj
Has(obj, k) == \E i \in 1..Len(obj.kids) : obj.kids[i].k = k

\* obj[k], and obj.get(k): None for a missing key
Get(obj, k) ==
    IF Has(obj, k)
    THEN obj.kids[CHOOSE i \in 1..Len(obj.kids) : obj.kids[i].k = k].v
    ELSE JNull

\* Python's truth value: None, False, 0, "", [] and {} are false.
Truthy(v) ==
    CASE v.t = "null" -> FALSE
      [] v.t = "bool" -> v.b
      [] v.t = "num" -> v.n # 0
      [] v.t = "str" -> v.s # <<>>
      [] OTHER -> v.kids # <<>>

\* a or b
PyOr(a, b) == IF Truthy(a) THEN a ELSE b

\* The text of a key, for the repr of an object.
KeyText(k) ==
    CASE k = "locationName" -> <<"l", "o", "c", "a", "t", "i", "o", "n", "N", "a", "m", "e">>
      [] k = "locationname" -> <<"l", "o", "c", "a", "t", "i", "o", "n", "n", "a", "m", "e">>
      [] k = "location" -> <<"l", "o", "c", "a", "t", "i", "o", "n">>
      [] k = "siteName" -> <<"s", "i", "t", "e", "N", "a", "m", "e">>
      [] k = "stationName" -> <<"s", "t", "a", "t", "i", "o", "n", "N", "a", "m", "e">>
      [] k = "name" -> <<"n", "a", "m", "e">>
      [] k = "weatherElement" -> <<"w", "e", "a", "t", "h", "e", "r", "E", "l", "e", "m", "e", "n", "t">>
      [] k = "elementName" -> <<"e", "l", "e", "m", "e", "n", "t", "N", "a", "m", "e">>
      [] k = "elementValue" -> <<"e", "l", "e", "m", "e", "n", "t", "V", "a", "l", "u", "e">>
      [] k = "value" -> <<"v", "a", "l", "u", "e">>
      [] k = "measure" -> <<"m", "e", "a", "s", "u", "r", "e">>
      [] k = "cwaopendata" -> <<"c", "w", "a", "o", "p", "e", "n", "d", "a", "t", "a">>
      [] k = "dataset" -> <<"d", "a", "t", "a", "s", "e", "t">>
      [] k = "c1" -> <<"c", "1">>
      [] k = "c2" -> <<"c", "2">>
      [] k = "c3" -> <<"c", "3">>
      [] k = "c4" -> <<"c", "4">>
      [] OTHER -> <<"k">>

DigitChar(d) == <<"0", "1", "2", "3", "4", "5", "6", "7", "8", "9">>[d + 1]

RECURSIVE Digits(_)
Digits(n) == IF n < 10 THEN <<DigitChar(n)>> ELSE Digits(n \div 10) \o <<DigitChar(n % 10)>>

\* repr(): a string is quoted, a list and a dict print their members' repr.
RECURSIVE PyRepr(_)
RECURSIVE ReprKids(_, _, _)
ReprKids(kids, i, isObj) ==
    IF i > Len(kids) THEN <<>>
    ELSE (IF i > 1 THEN <<",", " ">> ELSE <<>>)
         \o (IF isObj THEN <<"'">> \o KeyText(kids[i].k) \o <<"'", ":", " ">> ELSE <<>>)
         \o PyRepr(kids[i].v)
         \o ReprKids(kids, i + 1, isObj)

PyRepr(v) ==
    CASE v.t = "null" -> <<"N", "o", "n", "e">>
      [] v.t = "bool" -> IF v.b THEN <<"T", "r", "u", "e">> ELSE <<"F", "a", "l", "s", "e">>
      [] v.t = "num" -> Digits(v.n)
      [] v.t = "str" -> <<"'">> \o v.s \o <<"'">>
      [] v.t = "arr" -> <<"[">> \o ReprKids(v.kids, 1, FALSE) \o <<"]">>
      [] OTHER -> <<"{">> \o ReprKids(v.kids, 1, TRUE) \o <<"}">>

\* str(): a string is itself, everything else its repr.
PyStr(v) == IF v.t = "str" THEN v.s ELSE PyRepr(v)

(***************************************************************************)
(* find_locations                                                          *)
(*                                                                         *)
(* A call either raises or returns the list found.  A record carries, next *)
(* to its three fields, where it was produced: owner is the path (member   *)
(* and item indices from the root) of the object whose weatherElement      *)
(* array held the element, idx the element's index in that array.  The     *)
(* code does not keep these two; they let the properties speak of places.  *)
(***************************************************************************)

Returned(found) == [raised |-> FALSE, found |-> found]
Raised == [raised |-> TRUE, found |-> <<>>]

\* Statement a, then statement b: an exception in a skips b.
Then(a, b) ==
    IF a.raised THEN Raised
    ELSE IF b.raised THEN Raised
    ELSE Returned(a.found \o b.found)

LocationKeys ==
    <<"locationName", "locationname", "location", "siteName", "stationName", "name">>

\* Mutant: the loop without its break, so the last matching key wins.
ResolveLocName_last_wins(obj, inherited) ==
    LET hits == {i \in 1..Len(LocationKeys) :
                    Has(obj, LocationKeys[i]) /\ Get(obj, LocationKeys[i]).t = "str"}
    IN  IF hits = {} THEN inherited
        ELSE Get(obj, LocationKeys[CHOOSE i \in hits : \A j \in hits : j <= i])

\* loc_name after the loop over the candidate keys
ResolveLocName(obj, inherited) ==
    LET hits == {i \in 1..Len(LocationKeys) :
                    Has(obj, LocationKeys[i]) /\ Get(obj, LocationKeys[i]).t = "str"}
    IN  IF hits = {} THEN inherited
        ELSE Get(obj, LocationKeys[CHOOSE i \in hits : \A j \in hits : i <= j])

\* elem_name
ElemName(elem) == PyOr(PyOr(Get(elem, "elementName"), Get(elem, "name")), JStr(<<>>))

\* val_container
ValContainer(elem) == PyOr(Get(elem, "elementValue"), Get(elem, "value"))

\* temp_val
TempVal(val_container) ==
    IF val_container.t = "obj"
    THEN PyOr(Get(val_container, "value"), Get(val_container, "measure"))
    ELSE IF val_container # JNull THEN JStr(PyStr(val_container))
    ELSE JNull

\* Mutant: the record is appended without looking at loc_name and temp_val.
Emit_unguarded(loc_name, elem_name, temp_val, path, j) ==
    <<[location |-> loc_name, temp_type |-> elem_name, temperature |-> temp_val,
       owner |-> path, idx |-> j]>>

\* if loc_name and temp_val is not None: found.append(...)
Emit(loc_name, elem_name, temp_val, path, j) ==
    IF Truthy(loc_name) /\ temp_val # JNull
    THEN <<[location |-> loc_name, temp_type |-> elem_name, temperature |-> temp_val,
            owner |-> path, idx |-> j]>>
    ELSE <<>>

\* One turn of the loop over obj["weatherElement"].  re.search raises
\* TypeError when elem_name is not a string.
ScanElem(elem, loc_name, path, j) ==
    IF elem.t # "obj" THEN Returned(<<>>)
    ELSE LET elem_name == ElemName(elem)
         IN  IF elem_name.t # "str" THEN Raised
             ELSE IF is_temp_name(elem_name.s)
                  THEN Returned(Emit(loc_name, elem_name, TempVal(ValContainer(elem)), path, j))
                  ELSE Returned(<<>>)

RECURSIVE ScanElems(_, _, _, _)
ScanElems(elems, j, loc_name, path) ==
    IF j > Len(elems) THEN Returned(<<>>)
    ELSE Then(ScanElem(elems[j].v, loc_name, path, j),
              ScanElems(elems, j + 1, loc_name, path))

\* The weatherElement block of an object.
OwnElements(obj, loc_name, path) ==
    IF Has(obj, "weatherElement") /\ Get(obj, "weatherElement").t = "arr"
    THEN ScanElems(Get(obj, "weatherElement").kids, 1, loc_name, path)
    ELSE Returned(<<>>)

\* Mutant: the object's children are scanned before its own elements.
ObjectOrder_children_first(own, below) == Then(below, own)

\* The body of the dict branch: the weatherElement block, then the recursion.
ObjectOrder(own, below) == Then(own, below)

\* The context handed to the children of an object: scan(v, loc_name).
ChildContext(loc_name, inherited) == loc_name

RECURSIVE Scan(_, _, _)
RECURSIVE ScanKids(_, _, _, _)
ScanKids(kids, i, loc, path) ==
    IF i > Len(kids) THEN Returned(<<>>)
    ELSE Then(Scan(kids[i].v, loc, path \o <<i>>), ScanKids(kids, i + 1, loc, path))

Scan(obj, inherited_loc_name, path) ==
    IF obj.t = "obj"
    THEN LET loc_name == ResolveLocName(obj, inherited_loc_name)
         IN  ObjectOrder(OwnElements(obj, loc_name, path),
                         ScanKids(obj.kids, 1, ChildContext(loc_name, inherited_loc_name), path))
    ELSE IF obj.t = "arr"
         THEN ScanKids(obj.kids, 1, inherited_loc_name, path)
         ELSE Returned(<<>>)

find_locations(d) == Scan(d, JNull, <<>>)


(***************************************************************************)
(* The documents the scan is run on                                        *)
(***************************************************************************)

\* Most objects (the element objects aside) in a generated document.
MaxNodes == 3

Txt(str) == JStr(str)
A == <<"A">>
B == <<"B">>

\* What an object says about its location: nothing; locationName; a
\* non-string locationName beside siteName and name (inserted out of
\* precedence order); an empty locationName.
LocChoices ==
    { <<>>,
      <<KV("locationName", Txt(A))>>,
      <<KV("name", Txt(A)), KV("locationName", JNum(7)), KV("siteName", Txt(B))>>,
      <<KV("locationName", Txt(<<>>))>> }

ElemT == JObj(<<KV("elementName", Txt(<<"T">>)),
                KV("elementValue", JObj(<<KV("value", Txt(<<"1", "8">>))>>))>>)
ElemWx == JObj(<<KV("elementName", Txt(<<"W", "x">>)),
                 KV("elementValue", JObj(<<KV("value", Txt(<<"9">>))>>))>>)
ElemMinT == JObj(<<KV("name", Txt(<<"M", "i", "n", "T">>)),
                   KV("value", Txt(<<"2", "0">>))>>)
ElemNoValue == JObj(<<KV("elementName", Txt(<<"T">>)), KV("elementValue", JNull)>>)
ElemMaxT == JObj(<<KV("elementName", Txt(<<"M", "a", "x", "T">>)),
                   KV("elementValue", JObj(<<KV("measure", Txt(<<"3", "0">>))>>))>>)

\* An object carries no weatherElement, or one holding a stray string, two
\* temperature elements, one without a value and one element of another kind.
WxChoices ==
    { <<>>,
      <<KV("weatherElement", JArr(<<Txt(<<"x">>), ElemT, ElemWx, ElemNoValue, ElemMinT>>))>> }

ChildKeys == <<"c1", "c2", "c3", "c4">>

\* The children of an object at even depth sit in an array under "location"
\* (the layout of the CWA files), those at odd depth under keys of their own.
ChildMembers(children, depth) ==
    IF children = <<>> THEN <<>>
    ELSE IF depth % 2 = 0 THEN <<KV("location", JArr(children))>>
    ELSE [i \in 1..Len(children) |-> KV(ChildKeys[i], children[i])]

RECURSIVE TreesOf(_, _)
RECURSIVE ForestsOf(_, _)
\* The sequences of trees with n objects in all.
ForestsOf(n, depth) ==
    IF n = 0 THEN {<<>>}
    ELSE UNION {{<<t>> \o f : t \in TreesOf(k, depth), f \in ForestsOf(n - k, depth)} :
                k \in 1..n}

\* The trees of n objects: location keys, then the children, then weatherElement.
TreesOf(n, depth) ==
    {JObj(l \o ChildMembers(f, depth) \o w) :
        l \in LocChoices, w \in WxChoices, f \in ForestsOf(n - 1, depth + 1)}

\* How an element names itself.
NameChoices ==
    { <<>>,
      <<KV("elementName", Txt(<<"T">>))>>,
      <<KV("name", Txt(<<"T">>))>>,
      <<KV("elementName", Txt(<<>>)), KV("name", Txt(<<"M", "i", "n", "T">>))>>,
      <<KV("elementName", JNull), KV("name", Txt(<<"t", "e", "m", "p">>))>>,
      <<KV("elementName", Txt(<<"W", "x">>)), KV("name", Txt(<<"T">>))>>,
      <<KV("elementName", JNum(0)), KV("name", Txt(<<>>))>>,
      <<KV("elementName", JNum(5))>>,
      <<KV("elementName", JBool(TRUE))>>,
      <<KV("elementName", JArr(<<Txt(<<"T">>)>>))>>,
      <<KV("name", JObj(<<KV("value", Txt(<<"T">>))>>))>> }

\* What elementValue holds, when present.
ContainerChoices ==
    { JNull, JBool(FALSE), JBool(TRUE), JNum(0), JNum(25),
      Txt(<<>>), Txt(<<"1", "8">>), Txt(<<"n", "a">>),
      JArr(<<>>), JArr(<<JNum(1), Txt(<<"a">>)>>),
      JObj(<<>>),
      JObj(<<KV("value", Txt(<<"1", "8">>))>>),
      JObj(<<KV("measure", Txt(<<"2", "5">>))>>),
      JObj(<<KV("value", JNum(0)), KV("measure", Txt(<<"5">>))>>),
      JObj(<<KV("value", JNum(18))>>),
      JObj(<<KV("value", JNull), KV("measure", JNum(0))>>),
      JObj(<<KV("value", Txt(<<>>))>>),
      JObj(<<KV("value", JArr(<<JNum(1)>>))>>) }

ElementValueChoices == {<<>>} \cup {<<KV("elementValue", c)>> : c \in ContainerChoices}

ValueChoices ==
    { <<>>,
      <<KV("value", JNull)>>,
      <<KV("value", Txt(<<"7">>))>>,
      <<KV("value", JNum(0))>>,
      <<KV("value", JObj(<<KV("measure", Txt(<<"9">>))>>))>> }

\* One location whose weatherElement holds a varied element and then a
\* plain temperature element.
ElemDoc(l, nm, ev, v) ==
    JObj(l \o <<KV("weatherElement", JArr(<<JObj(nm \o ev \o v), ElemMaxT>>))>>)

(***************************************************************************)
(* Specification of the scan                                               *)
(***************************************************************************)

Init ==
    /\ \/ \E n \in 1..MaxNodes : data \in TreesOf(n, 0)
       \/ \E l \in LocChoices, nm \in NameChoices, ev \in ElementValueChoices,
             v \in ValueChoices : data = ElemDoc(l, nm, ev, v)
    /\ out = NoOut
    /\ name = <<>> /\ verdict = "none"
    /\ source = NoSource /\ db = <<>> /\ run = NoRun

\* locations = find_locations(data)
CallFindLocations ==
    /\ ~out.called
    /\ LET r == find_locations(data)
       IN  out' = [called |-> TRUE, raised |-> r.raised, found |-> r.found]
    /\ UNCHANGED <<name, verdict, data, source, db, run>>

Next == CallFindLocations

Spec == Init /\ [][Next]_vars

(***************************************************************************)
(* C1                                                                      *)
(***************************************************************************)

\* C1: on every JSON value find_locations returns a list and raises nothing.
C1_NeverRaises == out.called => ~out.raised

(***************************************************************************)
(* C4                                                                      *)
(***************************************************************************)

\* C4: in every record returned, location, temp_type and temperature are
\* strings.
C4_AllStrings ==
    (out.called /\ ~out.raised) =>
        \A i \in 1..Len(out.found) :
            /\ out.found[i].location.t = "str"
            /\ out.found[i].temp_type.t = "str"
            /\ out.found[i].temperature.t = "str"


(***************************************************************************)
(* Places in a document, for the properties                                *)
(***************************************************************************)

RECURSIVE NodeAt(_, _)
NodeAt(v, path) == IF path = <<>> THEN v ELSE NodeAt(v.kids[Head(path)].v, Tail(path))

RECURSIVE PathsFrom(_, _)
PathsFrom(v, path) ==
    {path} \cup UNION {PathsFrom(v.kids[i].v, path \o <<i>>) : i \in 1..Len(v.kids)}

\* The paths of the objects of the document that own a weatherElement array.
Owners ==
    {p \in PathsFrom(data, <<>>) :
        LET o == NodeAt(data, p)
        IN  o.t = "obj" /\ Has(o, "weatherElement") /\ Get(o, "weatherElement").t = "arr"}

ElementsOf(p) == Get(NodeAt(data, p), "weatherElement").kids

Prefix(path, m) == SubSeq(path, 1, m)
IsProperPrefix(p, q) == Len(p) < Len(q) /\ Prefix(q, Len(p)) = p

\* The object declares a name: one of the six keys is present with a string.
Declares(o) ==
    o.t = "obj" /\ \E i \in 1..Len(LocationKeys) :
                      Has(o, LocationKeys[i]) /\ Get(o, LocationKeys[i]).t = "str"

\* The name it declares: that of the first such key in the order of the list.
DeclaredName(o) ==
    LET first == CHOOSE i \in 1..Len(LocationKeys) :
                    /\ Has(o, LocationKeys[i]) /\ Get(o, LocationKeys[i]).t = "str"
                    /\ \A j \in 1..(i - 1) :
                          ~(Has(o, LocationKeys[j]) /\ Get(o, LocationKeys[j]).t = "str")
    IN  Get(o, LocationKeys[first]).s

\* The depths, on the way from the root to the object at path, of the
\* objects that declare a name.
DeclaringDepths(path) == {m \in 0..Len(path) : Declares(NodeAt(data, Prefix(path, m)))}

Deepest(S) == CHOOSE m \in S : \A k \in S : k <= m

\* The context at path is a non-empty name.
HasContext(path) ==
    /\ DeclaringDepths(path) # {}
    /\ DeclaredName(NodeAt(data, Prefix(path, Deepest(DeclaringDepths(path))))) # <<>>

RecordsOf(p, j) == {i \in 1..Len(out.found) : out.found[i].owner = p /\ out.found[i].idx = j}

\* The element is an object whose name is a string the classifier accepts.
Accepted(elem) ==
    elem.t = "obj" /\ ElemName(elem).t = "str" /\ is_temp_name(ElemName(elem).s)

(***************************************************************************)
(* C2                                                                      *)
(***************************************************************************)

\* The container as C2 words it: elementValue if present and non-null,
\* otherwise value.
StatedContainer(elem) ==
    IF Get(elem, "elementValue") # JNull THEN Get(elem, "elementValue") ELSE Get(elem, "value")

\* The final value as C2 words it.
StatedFinal(c) ==
    IF c.t = "obj"
    THEN (IF Get(c, "value") # JNull THEN Get(c, "value") ELSE Get(c, "measure"))
    ELSE IF c.t \in {"bool", "num", "str"} THEN JStr(PyStr(c))
    ELSE JNull

\* C2: under a non-empty location, an accepted element whose container (the
\* first non-null of elementValue, value) is an object or a scalar yields
\* exactly one record, holding the final value (the first non-null of the
\* object's value, measure; the scalar's text), when that is non-null, and
\* no record otherwise.
C2_FirstNonNullWins ==
    (out.called /\ ~out.raised) =>
        \A p \in Owners : \A j \in 1..Len(ElementsOf(p)) :
            LET elem == ElementsOf(p)[j].v
                c == StatedContainer(elem)
            IN  (Accepted(elem) /\ HasContext(p) /\ c.t # "arr") =>
                    IF StatedFinal(c) # JNull
                    THEN /\ Cardinality(RecordsOf(p, j)) = 1
                         /\ \A i \in RecordsOf(p, j) : out.found[i].temperature = StatedFinal(c)
                    ELSE RecordsOf(p, j) = {}

(***************************************************************************)
(* C3                                                                      *)
(***************************************************************************)

\* C3: the location of every record is the name declared by the object that
\* owns the weatherElement array or, when it declares none, by its nearest
\* ancestor that declares one; names declared elsewhere are never used.
C3_LocationInherited ==
    (out.called /\ ~out.raised) =>
        \A i \in 1..Len(out.found) :
            LET p == out.found[i].owner
            IN  /\ DeclaringDepths(p) # {}
                /\ out.found[i].location =
                      JStr(DeclaredName(NodeAt(data, Prefix(p, Deepest(DeclaringDepths(p))))))

\* A record has inherited its location from a proper ancestor, while an
\* object outside its ancestry, scanned before it, declares another name.
C3_Witness ==
    /\ out.called /\ ~out.raised
    /\ \E i \in 1..Len(out.found) :
          LET p == out.found[i].owner
          IN  /\ ~Declares(NodeAt(data, p))
              /\ \E q \in PathsFrom(data, <<>>) :
                    /\ ~IsProperPrefix(q, p) /\ q # p
                    /\ \E m \in 1..Len(q) : m <= Len(p) /\ Prefix(q, m - 1) = Prefix(p, m - 1)
                                            /\ q[m] < p[m]
                    /\ Declares(NodeAt(data, q))
                    /\ DeclaredName(NodeAt(data, q)) # <<>>
                    /\ JStr(DeclaredName(NodeAt(data, q))) # out.found[i].location

(***************************************************************************)
(* C6                                                                      *)
(***************************************************************************)

\* Record a is produced at a place that comes before that of record b in
\* depth-first pre-order: the same array at a smaller index, an ancestor's
\* array, or a subtree entered earlier.
Before(a, b) ==
    \/ a.owner = b.owner /\ a.idx < b.idx
    \/ IsProperPrefix(a.owner, b.owner)
    \/ \E m \in 1..Len(a.owner) :
          /\ m <= Len(b.owner)
          /\ Prefix(a.owner, m - 1) = Prefix(b.owner, m - 1)
          /\ a.owner[m] < b.owner[m]

\* C6: the records are returned in depth-first pre-order: an object's own
\* records in array order and before those of its descendants, an earlier
\* child's records before a later child's.
C6_PreOrder ==
    (out.called /\ ~out.raised) =>
        \A i, j \in 1..Len(out.found) : i < j => Before(out.found[i], out.found[j])

\* The list holds two records of one array, a record of an object followed
\* by one of its descendant, and records of two sibling subtrees.
C6_Witness ==
    /\ out.called /\ ~out.raised
    /\ \E i, j \in 1..Len(out.found) :
          i < j /\ out.found[i].owner = out.found[j].owner
    /\ \E i, j \in 1..Len(out.found) :
          i < j /\ IsProperPrefix(out.found[i].owner, out.found[j].owner)
    /\ \E i, j \in 1..Len(out.found) :
          /\ i < j
          /\ ~IsProperPrefix(out.found[i].owner, out.found[j].owner)
          /\ out.found[i].owner # out.found[j].owner

(***************************************************************************)
(* C7                                                                      *)
(***************************************************************************)

\* The element's name is neither a string nor false: re.search raises on it.
Unclassifiable(elem) == elem.t = "obj" /\ ElemName(elem).t # "str"

\* C7: every record has a non-empty location, a non-empty type and a
\* non-null value; an accepted element with no location in context or no
\* value resolved yields no record and no error, and every other accepted
\* element still yields its record.
C7_RecordsComplete ==
    out.called =>
        /\ \A i \in 1..Len(out.found) :
              /\ out.found[i].location.t = "str" /\ out.found[i].location.s # <<>>
              /\ out.found[i].temp_type.t = "str" /\ out.found[i].temp_type.s # <<>>
              /\ out.found[i].temperature # JNull
        /\ out.raised =>
              \E p \in Owners : \E j \in 1..Len(ElementsOf(p)) :
                  Unclassifiable(ElementsOf(p)[j].v)
        /\ ~out.raised =>
              \A p \in Owners : \A j \in 1..Len(ElementsOf(p)) :
                  LET elem == ElementsOf(p)[j].v
                      kept == /\ Accepted(elem)
                              /\ HasContext(p)
                              /\ TempVal(ValContainer(elem)) # JNull
                  IN  Cardinality(RecordsOf(p, j)) = IF kept THEN 1 ELSE 0

\* An accepted element was dropped for want of a location or of a value,
\* and a later element of the same list produced its record.
C7_Witness ==
    /\ out.called /\ ~out.raised
    /\ \E p \in Owners : \E j \in 1..Len(ElementsOf(p)) :
          /\ Accepted(ElementsOf(p)[j].v)
          /\ HasContext(p)
          /\ TempVal(ValContainer(ElementsOf(p)[j].v)) = JNull
          /\ RecordsOf(p, j) = {}
          /\ \E k \in (j + 1)..Len(ElementsOf(p)) : RecordsOf(p, k) # {}
    /\ \E p \in Owners : \E j \in 1..Len(ElementsOf(p)) :
          Accepted(ElementsOf(p)[j].v) /\ ~HasContext(p)


(***************************************************************************)
(* float()                                                                 *)
(***************************************************************************)

DigitChars == {"0", "1", "2", "3", "4", "5", "6", "7", "8", "9"}
DigitVal(c) == CHOOSE d \in 0..9 : DigitChar(d) = c

Unsigned(s) == IF s # <<>> /\ s[1] \in {"-", "+"} THEN Tail(s) ELSE s
Lowered(s) == [i \in 1..Len(s) |-> Lower(s[i])]

\* digits with at most one point among them
IsDecimal(s) ==
    /\ \A i \in 1..Len(s) : s[i] \in DigitChars \cup {"."}
    /\ \E i \in 1..Len(s) : s[i] \in DigitChars
    /\ Cardinality({i \in 1..Len(s) : s[i] = "."}) <= 1

RECURSIVE Mantissa(_)
Mantissa(s) ==
    IF s = <<>> THEN 0
    ELSE IF s[Len(s)] = "." THEN Mantissa(SubSeq(s, 1, Len(s) - 1))
    ELSE 10 * Mantissa(SubSeq(s, 1, Len(s) - 1)) + DigitVal(s[Len(s)])

FractionDigits(s) ==
    IF \E i \in 1..Len(s) : s[i] = "."
    THEN Len(s) - (CHOOSE i \in 1..Len(s) : s[i] = ".")
    ELSE 0

\* The number m / 10^e in lowest terms of e.
RECURSIVE Reduced(_, _)
Reduced(m, e) == IF e > 0 /\ m % 10 = 0 THEN Reduced(m \div 10, e - 1) ELSE [m |-> m, e |-> e]

Float(kind, m, e) == [kind |-> kind, m |-> m, e |-> e]

\* float(text): a number, nan, inf, or ValueError.  (Exponents, underscores
\* and surrounding blanks, which float() also reads, are not in the texts
\* of the documents below.)
ParseFloat(s) ==
    LET body == Unsigned(s)
        sign == IF s # <<>> /\ s[1] = "-" THEN -1 ELSE 1
    IN  IF Lowered(body) = <<"n", "a", "n">> THEN Float("nan", 0, 0)
        ELSE IF Lowered(body) \in {<<"i", "n", "f">>, <<"i", "n", "f", "i", "n", "i", "t", "y">>}
             THEN Float("inf", sign, 0)
        ELSE IF IsDecimal(body)
             THEN LET r == Reduced(Mantissa(body), FractionDigits(body))
                  IN  Float("num", sign * r.m, r.e)
        ELSE Float("ValueError", 0, 0)

\* float(temp) for whatever a record holds as its temperature
ToFloat(v) ==
    CASE v.t = "str" -> ParseFloat(v.s)
      [] v.t = "num" -> Float("num", v.n, 0)
      [] v.t = "bool" -> Float("num", IF v.b THEN 1 ELSE 0, 0)
      [] OTHER -> Float("TypeError", 0, 0)

(***************************************************************************)
(* write_sqlite                                                            *)
(*                                                                         *)
(* table is the committed content of temperatures, a row per record in     *)
(* insertion order.  The call ends committed, or raises before its commit, *)
(* and the connection then closes with its DELETE and INSERTs rolled back. *)
(***************************************************************************)

Row(loc, temp_type, f) == [location |-> loc, temp_type |-> temp_type, temperature |-> f]

\* One turn of the loop over rows: "skip" (guard false, or ValueError /
\* TypeError caught), "insert", or "IntegrityError" (a NaN is bound as NULL
\* and the column is REAL NOT NULL), which nothing catches.
InsertOutcome(r) ==
    IF ~(Truthy(r.location) /\ Truthy(r.temp_type) /\ r.temperature # JNull) THEN "skip"
    ELSE LET f == ToFloat(r.temperature)
         IN  CASE f.kind \in {"ValueError", "TypeError"} -> "skip"
               [] f.kind = "nan" -> "IntegrityError"
               [] OTHER -> "insert"

RECURSIVE Inserted(_, _)
Inserted(rows, i) ==
    IF i > Len(rows) THEN <<>>
    ELSE (IF InsertOutcome(rows[i]) = "insert"
          THEN <<Row(rows[i].location.s, rows[i].temp_type.s, ToFloat(rows[i].temperature))>>
          ELSE <<>>)
         \o Inserted(rows, i + 1)

\* Mutant: the table is not cleared before the inserts.
AfterDelete_kept(table) == table

\* cur.execute("DELETE FROM temperatures")
AfterDelete(table) == <<>>

write_sqlite(rows, table) ==
    IF rows = <<>> THEN [table |-> table, raised |-> FALSE, committed |-> FALSE]
    ELSE IF \E i \in 1..Len(rows) : InsertOutcome(rows[i]) = "IntegrityError"
         THEN [table |-> table, raised |-> TRUE, committed |-> FALSE]
         ELSE [table |-> AfterDelete(table) \o Inserted(rows, 1),
               raised |-> FALSE, committed |-> TRUE]

(***************************************************************************)
(* main and update_database_from_json                                      *)
(*                                                                         *)
(* A source is a path that is missing, one that exists and cannot be read  *)
(* (no permission, a directory, bytes that are not UTF-8), a readable file *)
(* that is not JSON, or a readable JSON document.  The CSV file main also  *)
(* writes is left out: nothing reads it back.                              *)
(***************************************************************************)

\* Mutant: FileNotFoundError falls into the general handler.
LoadCode_no_missing_branch(kind) ==
    CASE kind = "json" -> 0
      [] OTHER -> 3

\* The try block of main: 0 when data is loaded, else the code returned.
LoadCode(kind) ==
    CASE kind = "json" -> 0
      [] kind = "missing" -> 2
      [] OTHER -> 3

\* data.get('cwaopendata', data)
Unwrap(d) == IF Has(d, "cwaopendata") THEN Get(d, "cwaopendata") ELSE d

Outcome(via, rc, msg, raised, wrote, committed, rows) ==
    [ran |-> TRUE, via |-> via, rc |-> rc, msg |-> msg, raised |-> raised,
     wrote |-> wrote, committed |-> committed, rows |-> rows]

\* main(): the outcome and the table it leaves.  An exception outside the
\* try block (data is not an object, find_locations or write_sqlite raises)
\* leaves main; the interpreter then exits with status 1.
main(src, table) ==
    IF LoadCode(src.kind) # 0
    THEN [table |-> table, run |-> Outcome("main", LoadCode(src.kind), "none", FALSE, FALSE, FALSE, <<>>)]
    ELSE IF src.doc.t # "obj"
    THEN [table |-> table, run |-> Outcome("main", 1, "none", TRUE, FALSE, FALSE, <<>>)]
    ELSE LET locations == find_locations(Unwrap(src.doc))
         IN  IF locations.raised
             THEN [table |-> table, run |-> Outcome("main", 1, "none", TRUE, FALSE, FALSE, <<>>)]
             ELSE IF locations.found = <<>>
             THEN [table |-> table, run |-> Outcome("main", 4, "none", FALSE, FALSE, FALSE, <<>>)]
             ELSE LET w == write_sqlite(locations.found, table)
                  IN  [table |-> w.table,
                       run |-> Outcome("main", IF w.raised THEN 1 ELSE 0, "none", w.raised,
                                       TRUE, w.committed, locations.found)]

\* update_database_from_json(): every exception is caught and turned into
\* a message.
update_database_from_json(src, table) ==
    IF src.kind = "missing"
    THEN [table |-> table, run |-> Outcome("app", 0, "not found", FALSE, FALSE, FALSE, <<>>)]
    ELSE IF src.kind # "json" \/ src.doc.t # "obj"
    THEN [table |-> table, run |-> Outcome("app", 0, "error", FALSE, FALSE, FALSE, <<>>)]
    ELSE LET locations == find_locations(Unwrap(src.doc))
         IN  IF locations.raised
             THEN [table |-> table, run |-> Outcome("app", 0, "error", FALSE, FALSE, FALSE, <<>>)]
             ELSE IF locations.found = <<>>
             THEN [table |-> table, run |-> Outcome("app", 0, "none discovered", FALSE, FALSE, FALSE, <<>>)]
             ELSE LET w == write_sqlite(locations.found, table)
                  IN  [table |-> w.table,
                       run |-> Outcome("app", 0, IF w.raised THEN "error" ELSE "updated", FALSE,
                                       TRUE, w.committed, locations.found)]

(***************************************************************************)
(* The sources of the update runs                                          *)
(***************************************************************************)

\* Most elements in the weatherElement array of a source document.
MaxRows == 2

\* A temperature element with a name and the text of its value.
Reading(elem_name, text) ==
    JObj(<<KV("elementName", Txt(elem_name)), KV("elementValue", JObj(<<KV("value", Txt(text))>>))>>)

\* Two readings that convert and one that reads as nan.
Readings ==
    { Reading(<<"T">>, <<"1", "8">>),
      Reading(<<"M", "i", "n", "T">>, <<"-", "1", ".", "5", "0">>),
      Reading(<<"T">>, <<"n", "a", "n">>) }

Station(elems) == JObj(<<KV("locationName", Txt(A)), KV("weatherElement", JArr(elems))>>)
Envelope(d) == JObj(<<KV("cwaopendata", JObj(<<KV("dataset", d)>>))>>)

\* Documents of up to MaxRows readings (none: a document without records).
ReadingDocs ==
    UNION {{Envelope(Station(elems)) : elems \in [1..n -> Readings]} : n \in 0..MaxRows}

\* A document without the envelope; one with a text float() refuses before
\* a reading that converts; one whose values are a number and a list; one
\* with an element name that is a number; one that is an array.
OtherDocs ==
    { Station(<<ElemMaxT>>),
      Envelope(Station(<<Reading(<<"T">>, <<"n", "/", "a">>), Reading(<<"T">>, <<"2", ".", "5">>)>>)),
      Envelope(Station(<<JObj(<<KV("elementName", Txt(<<"T">>)), KV("value", JObj(<<KV("value", JNum(18))>>))>>),
                         JObj(<<KV("elementName", Txt(<<"T">>)), KV("value", JObj(<<KV("value", JArr(<<JNum(1)>>))>>))>>)>>)),
      Envelope(Station(<<JObj(<<KV("elementName", JNum(5))>>)>>)),
      JArr(<<>>) }

Sources ==
    {[kind |-> k, doc |-> NoData] : k \in {"missing", "unreadable", "badjson"}}
    \cup {[kind |-> "json", doc |-> d] : d \in ReadingDocs \cup OtherDocs}

(***************************************************************************)
(* Specification of the update runs                                        *)
(***************************************************************************)

InitMain ==
    /\ source = NoSource /\ db = <<>> /\ run = NoRun
    /\ name = <<>> /\ verdict = "none"
    /\ data = NoData /\ out = NoOut

\* python fetch_temperatures.py --file <source>
RunMain ==
    \E src \in Sources :
        LET r == main(src, db)
        IN  /\ source' = src
            /\ db' = r.table
            /\ run' = r.run
            /\ UNCHANGED <<name, verdict, data, out>>

\* The Update Data button, and the first start, of the Streamlit app.
RunUpdate ==
    \E src \in Sources :
        LET r == update_database_from_json(src, db)
        IN  /\ source' = src
            /\ db' = r.table
            /\ run' = r.run
            /\ UNCHANGED <<name, verdict, data, out>>

NextMain == RunMain \/ RunUpdate

SpecMain == InitMain /\ [][NextMain]_vars

(***************************************************************************)
(* C8                                                                      *)
(***************************************************************************)

\* The value of the record converts to a number.
Converts(r) == ToFloat(r.temperature).kind \in {"num", "inf"}

RECURSIVE ConvertibleRows(_, _)
ConvertibleRows(rows, i) ==
    IF i > Len(rows) THEN <<>>
    ELSE (IF Converts(rows[i])
          THEN <<Row(rows[i].location.s, rows[i].temp_type.s, ToFloat(rows[i].temperature))>>
          ELSE <<>>)
         \o ConvertibleRows(rows, i + 1)

\* C8: write_sqlite, given records, always commits, and the table then
\* holds a row for each record whose value converts, in input order, the
\* others being skipped.
C8_SkipAndCommit ==
    run.wrote => (run.committed /\ db = ConvertibleRows(run.rows, 1))

(***************************************************************************)
(* C9                                                                      *)
(***************************************************************************)

\* The code main returns for a readable source that is not valid JSON.
InvalidJsonCode == LoadCode("badjson")

\* C9 as stated: a source that is missing or cannot be read never gets the
\* return code of a source that is not valid JSON.
C9_AsStated ==
    (run.ran /\ run.via = "main" /\ source.kind \in {"missing", "unreadable"}) =>
        run.rc # InvalidJsonCode

\* C9 amended: main returns 2 for a missing source, which no other failure
\* of the loading step returns; a source that exists and cannot be read
\* gets 3, the code of a source that is not valid JSON.
C9_MissingDistinct ==
    (run.ran /\ run.via = "main") =>
        /\ source.kind = "missing" => (run.rc = 2 /\ run.rc # InvalidJsonCode)
        /\ source.kind \in {"unreadable", "badjson"} => run.rc = 3
        /\ source.kind = "json" => run.rc \notin {2, 3}

\* main has run on a source that exists and cannot be read.
C9_Witness == run.ran /\ run.via = "main" /\ source.kind = "unreadable" /\ run.rc = 3

(***************************************************************************)
(* C10                                                                     *)
(***************************************************************************)

\* The rows derived from a source: those of the records of its document
\* whose value converts.
DerivedRows(src) ==
    IF src.kind = "json" /\ src.doc.t = "obj" /\ ~find_locations(Unwrap(src.doc)).raised
    THEN ConvertibleRows(find_locations(Unwrap(src.doc)).found, 1)
    ELSE <<>>

\* C10 as stated, for the runs that load their document and end without an
\* error: the table then holds the rows derived from that document and no
\* others, also when the document yields no record.
C10_AsStated ==
    ( /\ run.ran /\ source.kind = "json" /\ source.doc.t = "obj"
      /\ ~run.raised /\ run.msg # "error" ) =>
        db = DerivedRows(source)

\* C10 amended: a run that reaches the commit of write_sqlite leaves in the
\* table the rows derived from its document and no others; every other run
\* (the source does not load, the document yields no record, the run
\* raises) leaves the table as it was.
C10_ReplacedOnCommit ==
    [][ /\ run'.committed => db' = DerivedRows(source')
        /\ ~run'.committed => db' = db ]_vars

\* A run on a document without records has ended, and the table still
\* holds rows of an earlier document.
C10_Witness ==
    /\ run.ran /\ source.kind = "json" /\ source.doc.t = "obj"
    /\ find_locations(Unwrap(source.doc)) = Returned(<<>>)
    /\ ~run.committed
    /\ db # <<>>

=============================================================================
